---- MODULE Spec2Model ----
(***************************************************************************)
(* Model of streamlit_app.py: the pricing resolver (AWSPricingManager),    *)
(* its cache, the concurrent batch get_comprehensive_pricing and the cost  *)
(* aggregation that consumes it.                                           *)
(*                                                                         *)
(* Prices are integers in units of 10^-5 USD (0.096 USD/h is 9600), so    *)
(* every literal of the fallback tables is exact.  Time is an integer      *)
(* clock in the unit of time.time() (seconds).  Local computation steps    *)
(* of a thread take no time; the clock advances only while every thread    *)
(* is blocked (in a provider call, in future.result, in executor           *)
(* shutdown) or idle.                                                      *)
(***************************************************************************)
EXTENDS Integers, Sequences, FiniteSets, TLC

VARIABLES
    now,                \* time.time()
    nticks,             \* number of clock advances so far (bounded)
    pricing_client,     \* AWSPricingManager.pricing_client: TRUE = a client, FALSE = None
    cache,              \* AWSPricingManager.cache: cache key -> price
    last_cache_update,  \* AWSPricingManager.last_cache_update: cache key -> time
    writer,             \* ghost: cache key -> ids of the _update_cache calls that wrote
                        \*        the value and the timestamp now stored
    thr,                \* per thread: the resolver call it executes
    ncalls,             \* number of resolver calls application threads started (bounded)
    clients,            \* the application threads that call resolvers directly
    workload,           \* the resolver those threads exercise
    catalog,            \* the provider's price list in force (it is revised over time)
    lastRes,            \* ghost: cache key -> the last price an application thread's
                        \*        resolve obtained from the provider or the fallback table
    config,             \* the configuration of the request being served
    bpc,                \* where the request's thread is: "idle", "submit", "result",
                        \*        "shutdown", "returned"
    bkey,               \* get_comprehensive_pricing: index of the future being awaited
    submitAt,           \* ghost: when the four lookups were submitted
    waitStart,          \* when the current future.result(timeout=10) began
    pricing,            \* get_comprehensive_pricing: the map being built and returned
    bwarned,            \* keys for which the batch loop called st.warning
    berror,             \* the batch's outer except clause called st.error
    cost_breakdown,     \* what calculate_enterprise_costs returned
    est                 \* the last estimate computed by the calculator: the
                        \*        function applied, its arguments and its result

mgr == <<pricing_client, cache, last_cache_update, writer>>
api == <<ncalls, clients, workload>>
batch == <<config, bpc, bkey, submitAt, waitStart, pricing, bwarned, berror,
           cost_breakdown>>
vars == <<now, nticks, catalog, mgr, thr, api, lastRes, batch, est>>

-----------------------------------------------------------------------------
(* Bounds of the model *)

MaxTicks == 2
MaxApiTicks == 1
MaxCalls == 3

(* Program constants *)

cache_ttl == 3600
ResultTimeout == 10

-----------------------------------------------------------------------------
(* Static fallback tables *)

NoRegion == "None"
self_region == "us-east-1"

_get_fallback_ec2_pricing(instance_type) ==
    CASE instance_type = "m5.large"   -> 9600
      [] instance_type = "m5.xlarge"  -> 19200
      [] instance_type = "m5.2xlarge" -> 38400
      [] instance_type = "m5.4xlarge" -> 76800
      [] instance_type = "m5.8xlarge" -> 153600
      [] instance_type = "c5.2xlarge" -> 34000
      [] instance_type = "c5.4xlarge" -> 68000
      [] instance_type = "c5.9xlarge" -> 153000
      [] instance_type = "r5.2xlarge" -> 50400
      [] instance_type = "r5.4xlarge" -> 100800
      [] OTHER -> 10000

_get_fallback_dms_pricing(instance_type) ==
    CASE instance_type = "dms.t3.micro"   -> 2000
      [] instance_type = "dms.t3.small"   -> 4000
      [] instance_type = "dms.t3.medium"  -> 8000
      [] instance_type = "dms.t3.large"   -> 16000
      [] instance_type = "dms.c5.large"   -> 19200
      [] instance_type = "dms.c5.xlarge"  -> 38400
      [] instance_type = "dms.c5.2xlarge" -> 76800
      [] instance_type = "dms.c5.4xlarge" -> 153600
      [] instance_type = "dms.r5.large"   -> 25200
      [] instance_type = "dms.r5.xlarge"  -> 50400
      [] instance_type = "dms.r5.2xlarge" -> 100800
      [] instance_type = "dms.r5.4xlarge" -> 201600
      [] OTHER -> 20000

_get_fallback_s3_pricing(storage_class) ==
    CASE storage_class = "Standard"                   -> 2300
      [] storage_class = "Standard-IA"                -> 1250
      [] storage_class = "One Zone-IA"                -> 1000
      [] storage_class = "Glacier Instant Retrieval"  -> 400
      [] storage_class = "Glacier Flexible Retrieval" -> 360
      [] storage_class = "Glacier Deep Archive"       -> 99
      [] OTHER -> 2300

fallback_transfer_price == 9000

_get_fallback_dx_pricing(bandwidth_mbps) ==
    IF bandwidth_mbps >= 10000 THEN 155000
    ELSE IF bandwidth_mbps >= 1000 THEN 30000
    ELSE 3000

(* The fallback each resolver returns: get_ec2_pricing returns                *)
(* _get_fallback_ec2_pricing(instance_type), get_data_transfer_pricing 0.09.  *)
ResolverFallback(svc, param) ==
    CASE svc = "ec2"      -> _get_fallback_ec2_pricing(param)
      [] svc = "dms"      -> _get_fallback_dms_pricing(param)
      [] svc = "s3"       -> _get_fallback_s3_pricing(param)
      [] svc = "transfer" -> fallback_transfer_price
      [] svc = "dx"       -> _get_fallback_dx_pricing(param)

-----------------------------------------------------------------------------
(* Cache *)

(* cache_key = f"ec2_{instance_type}_{region or self.region}",              *)
(* f"transfer_{region or self.region}", f"dx_{bandwidth_mbps}_{...}"        *)
CacheKey(svc, param, region) ==
    LET r == IF region = NoRegion THEN self_region ELSE region
    IN  CASE svc = "transfer" -> <<svc, r>>
          [] svc = "dx"       -> <<svc, ToString(param), r>>
          [] OTHER            -> <<svc, param, r>>

_is_cache_valid_Inclusive(key) ==
    IF key \notin DOMAIN cache \/ key \notin DOMAIN last_cache_update
    THEN FALSE
    ELSE (now - last_cache_update[key]) <= cache_ttl

_is_cache_valid(key) ==
    IF key \notin DOMAIN cache \/ key \notin DOMAIN last_cache_update
    THEN FALSE
    ELSE (now - last_cache_update[key]) < cache_ttl

-----------------------------------------------------------------------------
(* The pricing provider's answers to get_products *)

USD(a) == ("USD" :> a)
CNY(a) == ("CNY" :> a)

(* pricePerUnit amounts the provider quotes under its successive price lists *)
(* (multiples of 24*30, so that the monthly-to-hourly conversion of Direct   *)
(* Connect is exact); none equals a fallback price.                          *)
ProviderAmounts == <<7200, 14400>>

(* price dimensions of the first product, in iteration order of              *)
(* terms.items() / priceDimensions.items()                                   *)
PriceDimensions(a) ==
    { <<>>, <<CNY(500)>>, <<USD(a)>>, <<CNY(500), USD(a)>> }

(* parses = FALSE: json.loads fails or 'terms'/'OnDemand'/'priceDimensions'/ *)
(* 'pricePerUnit' is missing                                                 *)
Products(a) ==
    { [parses |-> FALSE, dims |-> <<>>] }
    \cup { [parses |-> TRUE, dims |-> d] : d \in PriceDimensions(a) }

(* what get_products may answer while the provider quotes amount a;          *)
(* raises = TRUE: get_products raises (ClientError, connection error, ...)   *)
Responses(a) ==
    { [raises |-> TRUE, PriceList |-> <<>>] }
    \cup { [raises |-> FALSE, PriceList |-> <<>>] }
    \cup { [raises |-> FALSE, PriceList |-> <<p>>] : p \in Products(a) }

RECURSIVE FirstUSD(_)
(* the nested for loops: the first price dimension that quotes USD *)
FirstUSD(dims) ==
    IF dims = <<>> THEN [found |-> FALSE, usd |-> 0]
    ELSE IF "USD" \in DOMAIN Head(dims)
         THEN [found |-> TRUE, usd |-> Head(dims)["USD"]]
         ELSE FirstUSD(Tail(dims))

(* hourly_price = float(...['USD']); for Direct Connect monthly / (24 * 30) *)
ConvertPrice(svc, usd) ==
    IF svc = "dx" THEN usd \div (24 * 30) ELSE usd

(* The body of a resolver's try block and its except clause, applied to the  *)
(* provider's answer.  kind: "price" (a live price to cache and return),     *)
(* "fallback" (return the fallback), "raise" (an exception leaves the        *)
(* resolver); warn: st.warning was called.                                   *)
HandleResponse_NoExcept(svc, param, resp) ==
    IF resp.raises
    THEN [kind |-> "raise", val |-> 0, warn |-> FALSE]
    ELSE IF resp.PriceList = <<>>
    THEN [kind |-> "fallback", val |-> ResolverFallback(svc, param), warn |-> FALSE]
    ELSE IF ~resp.PriceList[1].parses
    THEN [kind |-> "raise", val |-> 0, warn |-> FALSE]
    ELSE LET f == FirstUSD(resp.PriceList[1].dims)
         IN  IF f.found
             THEN [kind |-> "price", val |-> ConvertPrice(svc, f.usd), warn |-> FALSE]
             ELSE [kind |-> "fallback", val |-> ResolverFallback(svc, param),
                   warn |-> FALSE]

HandleResponse(svc, param, resp) ==
    IF resp.raises
    THEN [kind |-> "fallback", val |-> ResolverFallback(svc, param), warn |-> TRUE]
    ELSE IF resp.PriceList = <<>>
    THEN [kind |-> "fallback", val |-> ResolverFallback(svc, param), warn |-> FALSE]
    ELSE IF ~resp.PriceList[1].parses
    THEN [kind |-> "fallback", val |-> ResolverFallback(svc, param), warn |-> TRUE]
    ELSE LET f == FirstUSD(resp.PriceList[1].dims)
         IN  IF f.found
             THEN [kind |-> "price", val |-> ConvertPrice(svc, f.usd), warn |-> FALSE]
             ELSE [kind |-> "fallback", val |-> ResolverFallback(svc, param),
                   warn |-> FALSE]

(* the kind of answer the provider gave *)
ResponseCause(resp) ==
    IF resp.raises THEN "throws"
    ELSE IF resp.PriceList = <<>> THEN "noprice"
    ELSE IF ~resp.PriceList[1].parses THEN "malformed"
    ELSE IF FirstUSD(resp.PriceList[1].dims).found THEN "price"
    ELSE "noprice"

-----------------------------------------------------------------------------
(* Threads *)

Workers == {"ec2", "s3", "transfer", "dx"}     \* the futures of the batch
Callers == {"c1", "c2"}
Threads == Workers \cup Callers

IdleThread ==
    [pc |-> "idle", id |-> 0, svc |-> "none", param |-> "none", region |-> NoRegion,
     key |-> <<>>, val |-> 0, src |-> "none", cause |-> "none", warned |-> FALSE,
     calls |-> 0, stampBy |-> 0, valueBy |-> 0, late |-> FALSE]

(* a thread entering resolver svc with the given arguments; id names the call *)
Invoke(svc, param, region, id) ==
    [IdleThread EXCEPT !.pc = "enter", !.id = id, !.svc = svc, !.param = param,
                       !.region = region, !.key = CacheKey(svc, param, region)]

(* the result of a future is available (a value, or the exception it raised) *)
Finished(t) == thr[t].pc \in {"done", "raised"}

(* a thread whose next step is local computation (takes no time) *)
Runnable(t) == thr[t].pc \in {"enter", "read", "upd1", "upd2"}

(* No worker of the batch's pool has a local step to take.  The four         *)
(* lookups of a batch use four different cache keys, so the local steps of   *)
(* a worker commute with every step of the other workers and of the          *)
(* request's thread: they are scheduled first.                               *)
WorkersSettled == \A k \in Workers : ~Runnable(k)

(* the resolver returns: r is the thread's record at the return statement *)
Return(t, r) ==
    /\ thr' = [thr EXCEPT ![t] = [r EXCEPT !.pc = "done",
                                           !.late = /\ t \in Workers
                                                    /\ now - submitAt > ResultTimeout]]
    /\ lastRes' = IF t \in clients /\ r.src \in {"live", "fallback"}
                  THEN (r.key :> [src |-> r.src, val |-> r.val, at |-> now]) @@ lastRes
                  ELSE lastRes

-----------------------------------------------------------------------------
(* The resolvers get_ec2_pricing, get_dms_pricing, get_s3_pricing,           *)
(* get_data_transfer_pricing, get_direct_connect_pricing share one shape;    *)
(* each action below is one step of it, taken by thread t.                   *)

(* if not self.pricing_client: return self._get_fallback_..._pricing(...)    *)
(* (pricing_client and the arguments never change during the call, so this   *)
(* test and the computation of cache_key are one step with the cache test)   *)
NoClient(t) ==
    /\ thr[t].pc = "enter"
    /\ ~pricing_client
    /\ Return(t, [thr[t] EXCEPT !.val = ResolverFallback(thr[t].svc, thr[t].param),
                                !.src = "fallback", !.cause = "noclient"])
    /\ UNCHANGED <<est, now, nticks, catalog, mgr, api, batch>>

(* if self._is_cache_valid(cache_key): ...   (the test succeeds) *)
CacheHit(t) ==
    /\ thr[t].pc = "enter"
    /\ pricing_client
    /\ _is_cache_valid(thr[t].key)
    /\ thr' = [thr EXCEPT ![t].pc = "read",
                          ![t].stampBy = writer[thr[t].key].stamp]
    /\ UNCHANGED <<est, now, nticks, catalog, mgr, api, lastRes, batch>>

(* ... return self.cache[cache_key] *)
CacheRead(t) ==
    /\ thr[t].pc = "read"
    /\ Return(t, [thr[t] EXCEPT !.val = cache[thr[t].key], !.src = "cache",
                                !.valueBy = writer[thr[t].key].value])
    /\ UNCHANGED <<est, now, nticks, catalog, mgr, api, batch>>

(* the cache test fails: response = self.pricing_client.get_products(...) is *)
(* issued; the thread blocks until the provider answers                      *)
CallProvider(t) ==
    /\ thr[t].pc = "enter"
    /\ pricing_client
    /\ ~_is_cache_valid(thr[t].key)
    /\ thr' = [thr EXCEPT ![t].pc = "wait", ![t].calls = @ + 1]
    /\ UNCHANGED <<est, now, nticks, catalog, mgr, api, lastRes, batch>>

(* get_products returns resp (or raises); the rest of the try block and the  *)
(* except clause run up to the call of _update_cache or the return           *)
ProviderReturn_Retry(t, resp) ==
    /\ thr[t].pc = "wait"
    /\ WorkersSettled
    /\ LET h == HandleResponse(thr[t].svc, thr[t].param, resp)
           r == [thr[t] EXCEPT !.val = h.val, !.warned = h.warn,
                               !.cause = ResponseCause(resp)]
       IN  CASE h.kind = "price" ->
                    /\ thr' = [thr EXCEPT ![t] = [r EXCEPT !.pc = "upd1"]]
                    /\ UNCHANGED lastRes
             [] h.kind = "fallback" /\ thr[t].calls < 2 ->
                    /\ thr' = [thr EXCEPT ![t] = [r EXCEPT !.pc = "enter"]]
                    /\ UNCHANGED lastRes
             [] h.kind = "fallback" /\ thr[t].calls >= 2 ->
                    Return(t, [r EXCEPT !.src = "fallback"])
             [] h.kind = "raise" ->
                    /\ thr' = [thr EXCEPT ![t] = [r EXCEPT !.pc = "raised"]]
                    /\ UNCHANGED lastRes
    /\ UNCHANGED <<est, now, nticks, catalog, mgr, api, batch>>

ProviderReturn(t, resp) ==
    /\ thr[t].pc = "wait"
    /\ WorkersSettled
    /\ LET h == HandleResponse(thr[t].svc, thr[t].param, resp)
           r == [thr[t] EXCEPT !.val = h.val, !.warned = h.warn,
                               !.cause = ResponseCause(resp)]
       IN  CASE h.kind = "price" ->
                    /\ thr' = [thr EXCEPT ![t] = [r EXCEPT !.pc = "upd1"]]
                    /\ UNCHANGED lastRes
             [] h.kind = "fallback" ->
                    Return(t, [r EXCEPT !.src = "fallback"])
             [] h.kind = "raise" ->
                    /\ thr' = [thr EXCEPT ![t] = [r EXCEPT !.pc = "raised"]]
                    /\ UNCHANGED lastRes
    /\ UNCHANGED <<est, now, nticks, catalog, mgr, api, batch>>

(* _update_cache, first statement: self.cache[key] = value *)
UpdateCacheValue(t) ==
    /\ thr[t].pc = "upd1"
    /\ cache' = (thr[t].key :> thr[t].val) @@ cache
    /\ writer' = (thr[t].key :>
                    [value |-> thr[t].id,
                     stamp |-> IF thr[t].key \in DOMAIN writer
                               THEN writer[thr[t].key].stamp ELSE 0]) @@ writer
    /\ thr' = [thr EXCEPT ![t].pc = "upd2"]
    /\ UNCHANGED <<est, now, nticks, catalog, pricing_client, last_cache_update, api, lastRes, batch>>

(* _update_cache, second statement: self.last_cache_update[key] = time.time(), *)
(* then return hourly_price                                                    *)
UpdateCacheStamp(t) ==
    /\ thr[t].pc = "upd2"
    /\ last_cache_update' = (thr[t].key :> now) @@ last_cache_update
    /\ writer' = [writer EXCEPT ![thr[t].key].stamp = thr[t].id]
    /\ Return(t, [thr[t] EXCEPT !.src = "live"])
    /\ UNCHANGED <<est, now, nticks, catalog, pricing_client, cache, api, batch>>

-----------------------------------------------------------------------------
(* The clock *)

(* time passes by d while no thread has a local step to take *)
Elapse(d, bound) ==
    /\ nticks < bound
    /\ \A t \in Threads : ~Runnable(t)
    /\ now' = now + d
    /\ nticks' = nticks + 1

(* the provider revises its price list *)
ProviderReprices ==
    /\ catalog < Len(ProviderAmounts)
    /\ catalog' = catalog + 1
    /\ UNCHANGED <<est, now, nticks, mgr, thr, api, lastRes, batch>>

-----------------------------------------------------------------------------
(* Application threads calling one resolver of one AWSPricingManager.  A run   *)
(* exercises one price key (workload): resolves of different keys touch       *)
(* disjoint entries of cache and last_cache_update.                           *)

ApiInstanceTypes == {"m5.large", "x1.32xlarge"}
ApiDmsInstanceTypes == {"dms.t3.micro"}
ApiStorageClasses == {"Standard-IA"}
ApiBandwidths == {500, 10000}
ApiRegions == {NoRegion}
ApiTickSteps == {cache_ttl - 1, cache_ttl}

NoConfig ==
    [data_size_gb |-> 0, transfer_days |-> 0, datasync_instance_type |-> "none",
     num_datasync_agents |-> 0, compliance_frameworks |-> 0,
     s3_storage_class |-> "none", dx_bandwidth_mbps |-> 0]

NoCost ==
    [computed |-> FALSE, compute |-> 0, transfer |-> 0, storage |-> 0,
     direct_connect |-> 0, datasync_service |-> 0, compliance |-> 0,
     monitoring |-> 0, cloudwatch |-> 0, total |-> 0, pricing_source |-> "none"]

NoEstimate == [op |-> "none"]

NoBatch ==
    /\ config = NoConfig
    /\ bpc = "idle"
    /\ bkey = 0
    /\ submitAt = 0
    /\ waitStart = 0
    /\ pricing = <<>>
    /\ bwarned = {}
    /\ berror = FALSE
    /\ cost_breakdown = NoCost

Call(c, svc, param, region) ==
    /\ c \in clients
    /\ workload.svc = svc
    /\ workload.param = param
    /\ thr[c].pc \in {"idle", "done"}
    /\ ncalls < MaxCalls
    /\ thr' = [thr EXCEPT ![c] = Invoke(svc, param, region, ncalls + 1)]
    /\ ncalls' = ncalls + 1
    /\ UNCHANGED <<est, now, nticks, catalog, mgr, clients, workload, lastRes, batch>>

get_ec2_pricing(c) ==
    \E it \in ApiInstanceTypes, r \in ApiRegions : Call(c, "ec2", it, r)

get_dms_pricing(c) ==
    \E it \in ApiDmsInstanceTypes, r \in ApiRegions : Call(c, "dms", it, r)

get_s3_pricing(c) ==
    \E sc \in ApiStorageClasses, r \in ApiRegions : Call(c, "s3", sc, r)

get_data_transfer_pricing(c) ==
    \E r \in ApiRegions : Call(c, "transfer", "none", r)

get_direct_connect_pricing(c) ==
    \E bw \in ApiBandwidths, r \in ApiRegions : Call(c, "dx", bw, r)

ApiTick ==
    /\ \E d \in ApiTickSteps : Elapse(d, MaxApiTicks)
    /\ UNCHANGED <<est, catalog, mgr, thr, api, lastRes, batch>>

(* AWSPricingManager.__init__: empty cache; _init_clients leaves a client or None *)
NewManager(client) ==
    [pricing_client |-> client, cache |-> <<>>, last_cache_update |-> <<>>]

InitApi ==
    /\ now = 0
    /\ nticks = 0
    /\ catalog = 1
    /\ \E client \in BOOLEAN :
         /\ pricing_client = NewManager(client).pricing_client
         /\ cache = NewManager(client).cache
         /\ last_cache_update = NewManager(client).last_cache_update
    /\ writer = <<>>
    /\ thr = [t \in Threads |-> IdleThread]
    /\ ncalls = 0
    /\ clients \in {{"c1"}, {"c1", "c2"}}
    /\ \/ workload \in {[svc |-> "ec2", param |-> p] : p \in ApiInstanceTypes}
       \/ workload \in {[svc |-> "dms", param |-> p] : p \in ApiDmsInstanceTypes}
       \/ workload \in {[svc |-> "s3", param |-> p] : p \in ApiStorageClasses}
       \/ workload = [svc |-> "transfer", param |-> "none"]
       \/ workload \in {[svc |-> "dx", param |-> p] : p \in ApiBandwidths}
    /\ lastRes = <<>>
    /\ NoBatch
    /\ est = NoEstimate

ResolverStep ==
    \/ \E t \in Threads : NoClient(t)
    \/ \E t \in Threads : CacheHit(t)
    \/ \E t \in Threads : CacheRead(t)
    \/ \E t \in Threads : CallProvider(t)
    \/ \E t \in Threads, resp \in Responses(ProviderAmounts[catalog]) : ProviderReturn(t, resp)
    \/ \E t \in Threads : UpdateCacheValue(t)
    \/ \E t \in Threads : UpdateCacheStamp(t)

NextApi ==
    \/ \E c \in Callers : get_ec2_pricing(c)
    \/ \E c \in Callers : get_dms_pricing(c)
    \/ \E c \in Callers : get_s3_pricing(c)
    \/ \E c \in Callers : get_data_transfer_pricing(c)
    \/ \E c \in Callers : get_direct_connect_pricing(c)
    \/ ResolverStep
    \/ ProviderReprices
    \/ ApiTick

SpecApi == InitApi /\ [][NextApi]_vars

-----------------------------------------------------------------------------
(* One request: main() -> MigrationPlatform() -> run() ->                     *)
(* calculate_migration_metrics -> calculate_enterprise_costs ->               *)
(* get_comprehensive_pricing                                                  *)

(* transfer_days is what calculate_migration_metrics derives from the        *)
(* throughput model; compliance_frameworks is the length of the list          *)
Configs ==
    { [data_size_gb |-> 1000, transfer_days |-> 1,
       datasync_instance_type |-> "m5.large", num_datasync_agents |-> 1,
       compliance_frameworks |-> 0, s3_storage_class |-> "Standard",
       dx_bandwidth_mbps |-> 500],
      [data_size_gb |-> 2000, transfer_days |-> 2,
       datasync_instance_type |-> "c5.9xlarge", num_datasync_agents |-> 3,
       compliance_frameworks |-> 2, s3_storage_class |-> "Glacier Deep Archive",
       dx_bandwidth_mbps |-> 10000] }

(* the arguments calculate_migration_metrics passes to                       *)
(* calculate_enterprise_costs; region and dx_bandwidth_mbps are left to the  *)
(* defaults of its signature                                                 *)
CostArgs(cfg) ==
    [data_size_gb |-> cfg.data_size_gb, transfer_days |-> cfg.transfer_days,
     instance_type |-> cfg.datasync_instance_type,
     num_agents |-> cfg.num_datasync_agents,
     compliance_frameworks |-> cfg.compliance_frameworks,
     s3_storage_class |-> cfg.s3_storage_class,
     region |-> NoRegion, dx_bandwidth_mbps |-> 1000]

(* futures: the dict of the four submitted lookups, in insertion order *)
FutureOrder == <<"ec2", "s3", "transfer", "dx">>

(* the argument of each submitted resolver *)
FutureParam(k, a) ==
    CASE k = "ec2"      -> a.instance_type
      [] k = "s3"       -> a.s3_storage_class
      [] k = "transfer" -> "none"
      [] k = "dx"       -> a.dx_bandwidth_mbps

Missing == [present |-> FALSE, val |-> 0]
Price(v) == [present |-> TRUE, val |-> v]

(* the if/elif chain of the batch loop's except clause; a key outside the    *)
(* chain is assigned nothing                                                 *)
ExceptFallback_NoDx(k, a) ==
    CASE k = "ec2"      -> Price(_get_fallback_ec2_pricing(a.instance_type))
      [] k = "s3"       -> Price(_get_fallback_s3_pricing(a.s3_storage_class))
      [] k = "transfer" -> Price(fallback_transfer_price)
      [] OTHER          -> Missing

ExceptFallback(k, a) ==
    CASE k = "ec2"      -> Price(_get_fallback_ec2_pricing(a.instance_type))
      [] k = "s3"       -> Price(_get_fallback_s3_pricing(a.s3_storage_class))
      [] k = "transfer" -> Price(fallback_transfer_price)
      [] k = "dx"       -> Price(_get_fallback_dx_pricing(a.dx_bandwidth_mbps))
      [] OTHER          -> Missing

(* main(): a new MigrationPlatform, hence a new EnhancedMigrationCalculator  *)
(* and a new AWSPricingManager, serves the request                           *)
main ==
    /\ bpc = "idle"
    /\ WorkersSettled
    /\ \E client \in BOOLEAN :
         /\ pricing_client' = NewManager(client).pricing_client
         /\ cache' = NewManager(client).cache
         /\ last_cache_update' = NewManager(client).last_cache_update
    /\ writer' = <<>>
    /\ thr' = [t \in Threads |-> IdleThread]
    /\ config' \in Configs
    /\ bpc' = "submit"
    /\ bkey' = 0
    /\ pricing' = <<>>
    /\ bwarned' = {}
    /\ berror' = FALSE
    /\ cost_breakdown' = NoCost
    /\ UNCHANGED <<est, now, nticks, catalog, api, lastRes, submitAt, waitStart>>

(* with ThreadPoolExecutor(max_workers=4) as executor: the four submits;     *)
(* every lookup gets a worker at once                                        *)
BatchSubmit ==
    /\ bpc = "submit"
    /\ WorkersSettled
    /\ thr' = [t \in Threads |->
                 IF t \in Workers
                 THEN Invoke(t, FutureParam(t, CostArgs(config)),
                             CostArgs(config).region, 1)
                 ELSE thr[t]]
    /\ submitAt' = now
    /\ waitStart' = now
    /\ bkey' = 1
    /\ bpc' = "result"
    /\ UNCHANGED <<est, now, nticks, catalog, mgr, api, lastRes, config, pricing, bwarned, berror,
                   cost_breakdown>>

(* the pool cannot be created or a submit raises: the outer except clause    *)
(* returns the four fallbacks                                                *)
BatchOuterExcept ==
    /\ bpc = "submit"
    /\ WorkersSettled
    /\ berror' = TRUE
    /\ pricing' = [k \in Workers |->
                     ResolverFallback(k, FutureParam(k, CostArgs(config)))]
    /\ bpc' = "returned"
    /\ UNCHANGED <<est, now, nticks, catalog, mgr, thr, api, lastRes, config, bkey, submitAt,
                   waitStart, bwarned, cost_breakdown>>

(* the loop moves to the next future, or leaves the loop *)
NextFuture ==
    /\ waitStart' = now
    /\ IF bkey < Len(FutureOrder)
       THEN bkey' = bkey + 1 /\ bpc' = "result"
       ELSE bkey' = bkey /\ bpc' = "shutdown"

(* pricing[key] = future.result(timeout=10): the lookup has returned *)
BatchResult ==
    /\ bpc = "result"
    /\ WorkersSettled
    /\ thr[FutureOrder[bkey]].pc = "done"
    /\ pricing' = (FutureOrder[bkey] :> thr[FutureOrder[bkey]].val) @@ pricing
    /\ NextFuture
    /\ UNCHANGED <<est, now, nticks, catalog, mgr, thr, api, lastRes, config, submitAt, bwarned,
                   berror, cost_breakdown>>

(* future.result raises, TimeoutError after 10 s of waiting or the lookup's  *)
(* own exception: except Exception warns and substitutes the fallback        *)
BatchExcept ==
    /\ bpc = "result"
    /\ WorkersSettled
    /\ LET k == FutureOrder[bkey]
           f == ExceptFallback(k, CostArgs(config))
       IN  /\ \/ thr[k].pc = "raised"
              \/ /\ ~Finished(k)
                 /\ now >= waitStart + ResultTimeout
           /\ bwarned' = bwarned \cup {k}
           /\ pricing' = IF f.present THEN (k :> f.val) @@ pricing ELSE pricing
    /\ NextFuture
    /\ UNCHANGED <<est, now, nticks, catalog, mgr, thr, api, lastRes, config, submitAt, berror,
                   cost_breakdown>>

(* return pricing, inside the with block: ThreadPoolExecutor.__exit__ calls  *)
(* shutdown(wait=True), which joins every worker before the call returns     *)
BatchReturn ==
    /\ bpc = "shutdown"
    /\ WorkersSettled
    /\ \A k \in Workers : Finished(k)
    /\ bpc' = "returned"
    /\ UNCHANGED <<est, now, nticks, catalog, mgr, thr, api, lastRes, config, bkey, submitAt,
                   waitStart, pricing, bwarned, berror, cost_breakdown>>

(* the rest of calculate_enterprise_costs; money in units of 10^-5 USD      *)
EnterpriseCosts(a, p, client) ==
    LET datasync_compute_cost == p["ec2"] * a.num_agents * 24 * a.transfer_days
        data_transfer_cost    == a.data_size_gb * p["transfer"]
        s3_storage_cost       == a.data_size_gb * p["s3"]
        dx_cost               == p["dx"] * 24 * a.transfer_days
        compliance_cost       == a.compliance_frameworks * 50000000
        monitoring_cost       == 20000000 * a.transfer_days
        datasync_service_cost == a.data_size_gb * 1250
        cloudwatch_cost       == a.num_agents * 5000000 * a.transfer_days
    IN  [computed |-> TRUE,
         compute |-> datasync_compute_cost,
         transfer |-> data_transfer_cost,
         storage |-> s3_storage_cost,
         direct_connect |-> dx_cost,
         datasync_service |-> datasync_service_cost,
         compliance |-> compliance_cost,
         monitoring |-> monitoring_cost,
         cloudwatch |-> cloudwatch_cost,
         total |-> datasync_compute_cost + data_transfer_cost + s3_storage_cost
                   + dx_cost + compliance_cost + monitoring_cost
                   + datasync_service_cost + cloudwatch_cost,
         pricing_source |-> IF client THEN "AWS API" ELSE "Fallback"]

calculate_enterprise_costs ==
    /\ bpc = "returned"
    /\ WorkersSettled
    /\ DOMAIN pricing = Workers
    /\ cost_breakdown' = EnterpriseCosts(CostArgs(config), pricing, pricing_client)
    /\ bpc' = "idle"
    /\ UNCHANGED <<est, now, nticks, catalog, mgr, thr, api, lastRes, config, bkey, submitAt,
                   waitStart, pricing, bwarned, berror>>

(* the request's thread has a step to take now *)
MainRunnable ==
    \/ bpc \in {"submit", "returned"}
    \/ /\ bpc = "result"
       /\ \/ Finished(FutureOrder[bkey])
          \/ now >= waitStart + ResultTimeout
    \/ /\ bpc = "shutdown"
       /\ \A k \in Workers : Finished(k)

BatchTickSteps == {1, ResultTimeout}

(* time passes while the request's thread is blocked in future.result (not  *)
(* beyond the instant its timeout expires), blocked in the executor's       *)
(* shutdown, or between requests                                            *)
BatchTick ==
    /\ ~MainRunnable
    /\ \E d \in BatchTickSteps :
         /\ bpc = "result" => now + d <= waitStart + ResultTimeout
         /\ Elapse(d, MaxTicks)
    /\ UNCHANGED <<est, catalog, mgr, thr, api, lastRes, batch>>

Init ==
    /\ now = 0
    /\ nticks = 0
    /\ catalog = 1
    /\ pricing_client = FALSE
    /\ cache = <<>>
    /\ last_cache_update = <<>>
    /\ writer = <<>>
    /\ thr = [t \in Threads |-> IdleThread]
    /\ ncalls = 0
    /\ clients = {}
    /\ workload = [svc |-> "none", param |-> "none"]
    /\ lastRes = <<>>
    /\ NoBatch
    /\ est = NoEstimate

(* The steps of the pool's workers.  The manager of a request is new and the *)
(* four lookups of its batch have four different keys, so the cache test of *)
(* a worker finds no entry (WorkerFindsNoEntry): the steps after a          *)
(* successful test are not among a request's steps.                         *)
WorkerStep ==
    \/ \E k \in Workers : NoClient(k)
    \/ \E k \in Workers : CallProvider(k)
    \/ \E k \in Workers, resp \in Responses(ProviderAmounts[catalog]) : ProviderReturn(k, resp)
    \/ \E k \in Workers : UpdateCacheValue(k)
    \/ \E k \in Workers : UpdateCacheStamp(k)

Next ==
    \/ main
    \/ BatchSubmit
    \/ BatchOuterExcept
    \/ BatchResult
    \/ BatchExcept
    \/ BatchReturn
    \/ calculate_enterprise_costs
    \/ WorkerStep
    \/ BatchTick

Spec == Init /\ [][Next]_vars

(* a worker at its cache test never finds a valid entry *)
WorkerFindsNoEntry ==
    \A k \in Workers : thr[k].pc = "enter" => ~_is_cache_valid(thr[k].key)

-----------------------------------------------------------------------------
(* Properties of the batch, get_comprehensive_pricing *)

(* the static fallback of the batch's key k for the request's arguments *)
StaticFallback(k) ==
    CASE k = "ec2"      -> _get_fallback_ec2_pricing(CostArgs(config).instance_type)
      [] k = "s3"       -> _get_fallback_s3_pricing(CostArgs(config).s3_storage_class)
      [] k = "transfer" -> fallback_transfer_price
      [] k = "dx"       -> _get_fallback_dx_pricing(CostArgs(config).dx_bandwidth_mbps)

(* C1: whenever get_comprehensive_pricing has returned, whatever each of the *)
(* four lookups did (returned a price, raised, timed out), the map it        *)
(* returned has exactly the keys ec2, s3, transfer and dx, each bound to a   *)
(* number; the caller never gets a partial map.                              *)
C1_CompleteMap ==
    bpc = "returned" =>
        /\ DOMAIN pricing = {"ec2", "s3", "transfer", "dx"}
        /\ \A k \in DOMAIN pricing : pricing[k] \in Nat

(* a batch has returned in which the last lookup timed out and another      *)
(* delivered a live price                                                    *)
C1_Witness ==
    /\ bpc = "returned"
    /\ ~berror
    /\ "dx" \in bwarned
    /\ "ec2" \notin bwarned
    /\ thr["ec2"].src = "live"

(* C2: a slow lookup does not block the batch: once every lookup has been   *)
(* collected or has timed out the call returns, without waiting (no time     *)
(* passes) for an abandoned worker to finish.                                *)
C2_ReturnsWithoutWaiting ==
    [][bpc = "shutdown" => now' = now]_vars

(* C3: every key whose lookup took longer than ResultTimeout from its        *)
(* submission is bound, in the map, to exactly the static fallback of its    *)
(* service.                                                                  *)
C3_SlowLookupGetsFallback ==
    \A k \in DOMAIN pricing :
        (~berror /\ thr[k].pc = "done" /\ thr[k].late) => pricing[k] = StaticFallback(k)

(* C7: the pricing cache outlives a request: an entry that is within its TTL *)
(* is still in the cache after every step of the program, the start of the   *)
(* next request included.                                                    *)
C7_CacheOutlivesRequest ==
    [][\A key \in DOMAIN cache \cap DOMAIN last_cache_update :
          now' - last_cache_update[key] < cache_ttl => key \in DOMAIN cache']_vars

(* where the price the batch bound to k came from *)
PriceSource(k) ==
    IF k \in bwarned THEN "fallback" ELSE thr[k].src

(* C10: when all four prices calculate_enterprise_costs used came from the   *)
(* static fallback table, the breakdown's pricing_source says 'Fallback'     *)
(* and total is computed from the fallback prices.                           *)
C10_FallbackProvenance ==
    (cost_breakdown.computed /\ ~berror
        /\ \A k \in Workers : PriceSource(k) = "fallback") =>
        /\ cost_breakdown.pricing_source = "Fallback"
        /\ cost_breakdown.total =
               EnterpriseCosts(CostArgs(config), [k \in Workers |-> StaticFallback(k)],
                               pricing_client).total

-----------------------------------------------------------------------------
(* Properties of the single-key resolvers *)

(* the static fallback value of a service kind and parameter *)
StaticCatalog(svc, param) ==
    CASE svc = "ec2"      -> _get_fallback_ec2_pricing(param)
      [] svc = "dms"      -> _get_fallback_dms_pricing(param)
      [] svc = "s3"       -> _get_fallback_s3_pricing(param)
      [] svc = "transfer" -> fallback_transfer_price
      [] svc = "dx"       -> _get_fallback_dx_pricing(param)

(* C4: no resolver raises, and a resolver that ran without a pricing client, *)
(* whose provider call threw, whose response was malformed or held no USD    *)
(* price, returned exactly the static fallback of its service and parameter. *)
C4_ResolverNeverRaises ==
    \A t \in Threads :
        /\ thr[t].pc # "raised"
        /\ (thr[t].pc = "done"
              /\ thr[t].cause \in {"noclient", "throws", "malformed", "noprice"})
           => thr[t].val = StaticCatalog(thr[t].svc, thr[t].param)

(* get_direct_connect_pricing has returned after a malformed response *)
C4_Witness ==
    \E t \in Callers :
        /\ thr[t].pc = "done"
        /\ thr[t].svc = "dx"
        /\ thr[t].cause = "malformed"

(* C5: a resolver about to return the cached value of its key found the     *)
(* entry's last refresh less than cache_ttl in the past: an entry at or     *)
(* past its TTL is never served.                                            *)
C5_StaleNeverServed ==
    \A t \in Threads :
        thr[t].pc = "read" =>
            /\ thr[t].key \in DOMAIN last_cache_update
            /\ now - last_cache_update[thr[t].key] < cache_ttl

(* a resolver has issued an external lookup for a key whose entry is exactly *)
(* cache_ttl old                                                             *)
C5_Witness ==
    \E t \in Callers :
        /\ thr[t].pc = "wait"
        /\ thr[t].key \in DOMAIN cache \cap DOMAIN last_cache_update
        /\ now - last_cache_update[thr[t].key] = cache_ttl

(* C8: a reader served a cached value saw a value and a refresh timestamp   *)
(* written by the same _update_cache call.                                  *)
C8_EntryAtomic ==
    \A t \in Threads :
        (thr[t].pc = "done" /\ thr[t].src = "cache") => thr[t].valueBy = thr[t].stampBy

(* t returns from a resolve of a key that a resolver returned a value for,  *)
(* lastRes[key], and no other thread uses the manager                       *)
ResolvesAgain(t) ==
    /\ clients = {t}
    /\ thr[t].pc # "done"
    /\ thr'[t].pc = "done"
    /\ thr[t].key \in DOMAIN lastRes

C9_DegradationWarned ==
    /\ \A k \in Workers :
          (thr[k].pc = "done" /\ thr[k].cause \in {"throws", "malformed", "noprice"})
              => thr[k].warned
    /\ \A k \in DOMAIN pricing :
          (~berror /\ thr[k].pc = "wait") => k \in bwarned

-----------------------------------------------------------------------------
(* Retries and abandoned lookups *)

(* C11: a resolve issues at most one get_products call: a lookup of a batch *)
(* that failed or timed out is not attempted again, neither by its resolver *)
(* nor by the batch.                                                        *)
C11_AtMostOneProviderCall ==
    \A k \in Workers : thr[k].calls <= 1

(* a batch has returned after one lookup timed out and another's provider   *)
(* call threw, each having called the provider once                         *)
C11_Witness ==
    /\ bpc = "returned"
    /\ "ec2" \in bwarned
    /\ thr["ec2"].calls = 1
    /\ thr["s3"].cause = "throws"
    /\ thr["s3"].calls = 1

(* C12: the result of a lookup the batch stopped waiting for is discarded:  *)
(* its key never gets a cache entry.                                        *)
C12_AbandonedResultDiscarded ==
    \A k \in bwarned : thr[k].key \notin DOMAIN cache

-----------------------------------------------------------------------------
(* The calculator, EnhancedMigrationCalculator.  Its arithmetic is floating  *)
(* point.  Here a throughput is an integer number of 1/100 Mbps, a factor    *)
(* (an efficiency) an integer number of 1/10000 and a percentage an integer; *)
(* a product is formed in the order in which the code forms it and rounded   *)
(* down as it is formed.                                                     *)

Max(a, b) == IF a >= b THEN a ELSE b
Min(a, b) == IF a <= b THEN a ELSE b
Factor(x, f) == (x * f) \div 10000
Pct(x, p) == (x * p) \div 100
Mbps(x) == x * 100

(* self.instance_performance[instance_type]["baseline_throughput"] *)
instance_performance(instance_type) ==
    CASE instance_type = "m5.large"   -> 150
      [] instance_type = "m5.xlarge"  -> 250
      [] instance_type = "m5.2xlarge" -> 400
      [] instance_type = "m5.4xlarge" -> 600
      [] instance_type = "m5.8xlarge" -> 1000
      [] instance_type = "c5.2xlarge" -> 500
      [] instance_type = "c5.4xlarge" -> 800
      [] instance_type = "c5.9xlarge" -> 1500
      [] instance_type = "r5.2xlarge" -> 450
      [] instance_type = "r5.4xlarge" -> 700

file_size_multipliers(file_size_category) ==
    CASE file_size_category = "< 1MB (Many small files)" -> 2500
      [] file_size_category = "1-10MB (Small files)"     -> 4500
      [] file_size_category = "10-100MB (Medium files)"  -> 7000
      [] file_size_category = "100MB-1GB (Large files)"  -> 9000
      [] file_size_category = "> 1GB (Very large files)" -> 9500

(* self.network_patterns.get(network_pattern, {}).get("efficiency", 0.85) *)
pattern_efficiency(network_pattern) ==
    CASE network_pattern = "direct_connect_dedicated" -> 9500
      [] network_pattern = "direct_connect_hosted"    -> 9000
      [] network_pattern = "site_to_site_vpn"         -> 7500
      [] network_pattern = "transit_gateway"          -> 8500
      [] OTHER                                        -> 8500

(* latency and jitter in ms; packet_loss in tenths of a percent (the step   *)
(* of its slider)                                                            *)
network_efficiency(a) ==
    LET latency_factor     == Max(4000, 10000 - (a.latency - 5) * 20)
        jitter_factor      == Max(8000, 10000 - a.jitter * 100)
        packet_loss_factor == Max(6000, 10000 - a.packet_loss * 100)
        qos_factor         == IF a.qos_enabled THEN 12000 ELSE 10000
    IN  Factor(Factor(Factor(Factor(latency_factor, jitter_factor),
                             packet_loss_factor), qos_factor),
               pattern_efficiency(a.network_pattern))

real_world_efficiency(a) ==
    IF a.real_world_mode
    THEN LET datasync_overhead          == 7500
             storage_io_factor          == 6000
             tcp_efficiency             == 8000
             s3_api_efficiency          == 8500
             filesystem_overhead        == 9000
             cpu_memory_factor          ==
                 IF a.instance_type = "m5.large" THEN 7000
                 ELSE IF a.instance_type \in {"m5.xlarge", "m5.2xlarge"} THEN 8000
                 ELSE 9000
             concurrent_workload_factor == 8500
             peak_hour_factor           == 9000
             error_handling_overhead    == 9500
         IN  Factor(Factor(Factor(Factor(Factor(Factor(Factor(Factor(
                 datasync_overhead, storage_io_factor), tcp_efficiency),
                 s3_api_efficiency), filesystem_overhead), cpu_memory_factor),
                 concurrent_workload_factor), peak_hour_factor),
                 error_handling_overhead)
    ELSE 9500

(* agent_efficiency = max(0.4, 1 - (i * 0.05)) *)
agent_efficiency_Rising(i) == Min(10000, 4000 + i * 500)

agent_efficiency(i) == Max(4000, 10000 - i * 500)

(* base_performance * file_efficiency * network_efficiency *)
BaseRate(a) ==
    Factor(Factor(Mbps(instance_performance(a.instance_type)),
                  file_size_multipliers(a.file_size_category)),
           network_efficiency(a))

(* agent_throughput of the loop's iteration i *)
agent_throughput(a, i) ==
    Factor(Factor(BaseRate(a), real_world_efficiency(a)), agent_efficiency(i))

RECURSIVE total_throughput(_, _)
(* for i in range(n): total_throughput += agent_throughput *)
total_throughput(a, n) ==
    IF n = 0 THEN 0 ELSE total_throughput(a, n - 1) + agent_throughput(a, n - 1)

(* network_bw_mbps * (dedicated_bandwidth / 100) *)
max_available_bandwidth(a) == a.network_bw_mbps * a.dedicated_bandwidth

(* what calculate_enterprise_throughput returns *)
EnterpriseThroughput(a) ==
    [effective_throughput   |-> Min(total_throughput(a, a.num_agents),
                                    max_available_bandwidth(a)),
     network_efficiency     |-> network_efficiency(a),
     theoretical_throughput |-> Min(BaseRate(a) * a.num_agents,
                                    max_available_bandwidth(a)),
     real_world_efficiency  |-> real_world_efficiency(a)]

(* metrics['datasync'] of calculate_migration_metrics; the factors of the   *)
(* network optimisations are percentages                                     *)
DatasyncMetrics(cfg) ==
    LET throughput_result == EnterpriseThroughput(cfg)
        tcp_factor ==
            CASE cfg.tcp_window_size = "64KB"  -> 105
              [] cfg.tcp_window_size = "128KB" -> 110
              [] cfg.tcp_window_size = "256KB" -> 115
              [] cfg.tcp_window_size = "512KB" -> 120
              [] cfg.tcp_window_size = "1MB"   -> 125
              [] cfg.tcp_window_size = "2MB"   -> 130
              [] OTHER                            -> 100
        mtu_factor ==
            CASE cfg.mtu_size = "9000 (Jumbo Frames)" -> 115
              [] cfg.mtu_size = "Custom"              -> 110
              [] OTHER                                   -> 100
        congestion_factor ==
            CASE cfg.network_congestion_control = "BBR"   -> 120
              [] cfg.network_congestion_control = "Reno"  -> 95
              [] cfg.network_congestion_control = "Vegas" -> 105
              [] OTHER                                       -> 100
        wan_factor == IF cfg.wan_optimization THEN 130 ELSE 100
        optimized  == Pct(Pct(Pct(Pct(throughput_result.effective_throughput,
                                      tcp_factor), mtu_factor),
                              congestion_factor), wan_factor)
        capped     == Min(optimized, max_available_bandwidth(cfg))
    IN  [throughput_mbps        |-> Max(Mbps(1), capped),
         theoretical_throughput |-> throughput_result.theoretical_throughput,
         real_world_efficiency  |-> throughput_result.real_world_efficiency,
         network_efficiency     |-> throughput_result.network_efficiency]

(* The configurations the calculator is applied to *)

MaxAgents == 14

(* the least bandwidth the sidebar accepts for dx_bandwidth_mbps *)
min_dx_bandwidth_mbps == 50

(* bandwidth 1 is below what the sidebar accepts: only a direct caller of   *)
(* the calculator can pass it                                               *)
InstanceTypes == {"m5.large", "c5.9xlarge"}
AgentCounts == {1, 2, MaxAgents - 1, MaxAgents}
FileSizes == {"< 1MB (Many small files)", "> 1GB (Very large files)"}
Bandwidths == {1, min_dx_bandwidth_mbps, 10000}
Latencies == {25, 400}
Jitters == {5, 30}
PacketLosses == {1, 50}
DedicatedBandwidths == {10, 90}
NetworkPatterns == {"direct_connect_dedicated", "site_to_site_vpn"}

ThroughputArgs ==
    [instance_type : InstanceTypes, num_agents : AgentCounts,
     file_size_category : FileSizes, network_bw_mbps : Bandwidths,
     latency : Latencies, jitter : Jitters, packet_loss : PacketLosses,
     qos_enabled : BOOLEAN, dedicated_bandwidth : DedicatedBandwidths,
     real_world_mode : BOOLEAN, network_pattern : NetworkPatterns]

Optimisations ==
    [tcp_window_size : {"Default", "2MB"},
     mtu_size : {"1500 (Standard)", "9000 (Jumbo Frames)"},
     network_congestion_control : {"Cubic (Default)", "Reno"},
     wan_optimization : BOOLEAN]

(* an exception that leaves the called function *)
Raise(fn, a, exception) ==
    [op |-> "raise", fn |-> fn, args |-> a, exception |-> exception]

(* self.instance_performance[instance_type], self.file_size_multipliers[...] *)
ThroughputKeyError(a) ==
    \/ a.instance_type \notin
         {"m5.large", "m5.xlarge", "m5.2xlarge", "m5.4xlarge", "m5.8xlarge",
          "c5.2xlarge", "c5.4xlarge", "c5.9xlarge", "r5.2xlarge", "r5.4xlarge"}
    \/ a.file_size_category \notin
         {"< 1MB (Many small files)", "1-10MB (Small files)", "10-100MB (Medium files)",
          "100MB-1GB (Large files)", "> 1GB (Very large files)"}

(* An estimate is a function of its arguments alone: a behaviour applies    *)
(* one function of the calculator to one choice of arguments, among them    *)
(* an instance type and a file-size category the tables do not know.        *)
calculate_enterprise_throughput ==
    /\ est.op = "none"
    /\ \E a \in ThroughputArgs, instance_type \in InstanceTypes \cup {"t2.nano"},
          file_size_category \in FileSizes \cup {"unknown"} :
         /\ (instance_type \notin InstanceTypes \/ file_size_category \notin FileSizes) =>
                (a.num_agents = 1 /\ a.network_bw_mbps = min_dx_bandwidth_mbps)
         /\ (instance_type \in InstanceTypes /\ file_size_category \in FileSizes) =>
                (a.instance_type = instance_type /\ a.file_size_category = file_size_category)
         /\ LET b == [a EXCEPT !.instance_type = instance_type,
                                !.file_size_category = file_size_category]
            IN  est' = IF ThroughputKeyError(b)
                       THEN Raise("calculate_enterprise_throughput", b, "KeyError")
                       ELSE [op |-> "throughput", args |-> b,
                             result |-> EnterpriseThroughput(b)]
    /\ UNCHANGED <<now, nticks, catalog, mgr, thr, api, lastRes, batch>>

(* calculate_migration_metrics, the block that builds metrics['datasync'] *)
metrics_datasync ==
    /\ est.op = "none"
    /\ \E a \in ThroughputArgs, o \in Optimisations :
         est' = [op |-> "datasync", args |-> a @@ o, result |-> DatasyncMetrics(a @@ o)]
    /\ UNCHANGED <<now, nticks, catalog, mgr, thr, api, lastRes, batch>>

-----------------------------------------------------------------------------
(* calculate_dms_throughput: database replication.  Throughputs in 1/100   *)
(* Mbps, factors in 1/10000, hours in tenths, minutes in thousandths.      *)

dms_performance(instance_type) ==
    CASE instance_type = "dms.t3.micro"   -> 50
      [] instance_type = "dms.t3.small"   -> 100
      [] instance_type = "dms.t3.medium"  -> 200
      [] instance_type = "dms.t3.large"   -> 400
      [] instance_type = "dms.c5.large"   -> 600
      [] instance_type = "dms.c5.xlarge"  -> 1200
      [] instance_type = "dms.c5.2xlarge" -> 2400
      [] instance_type = "dms.c5.4xlarge" -> 4800
      [] instance_type = "dms.r5.large"   -> 800
      [] instance_type = "dms.r5.xlarge"  -> 1600
      [] instance_type = "dms.r5.2xlarge" -> 3200
      [] instance_type = "dms.r5.4xlarge" -> 6400

(* str.lower() on the names the sidebar offers *)
Lower(db) ==
    CASE db = "Oracle"        -> "oracle"
      [] db = "SQL Server"    -> "sql server"
      [] db = "MySQL"         -> "mysql"
      [] db = "PostgreSQL"    -> "postgresql"
      [] db = "MongoDB"       -> "mongodb"
      [] db = "Cassandra"     -> "cassandra"
      [] db = "Redis"         -> "redis"
      [] db = "Elasticsearch" -> "elasticsearch"

db_factors(db) ==
    CASE db = "oracle"     -> 8500
      [] db = "sql server" -> 9000
      [] db = "mysql"      -> 9500
      [] db = "postgresql" -> 9500
      [] db = "mongodb"    -> 8000
      [] db = "cassandra"  -> 7500
      [] OTHER             -> 8500

RECURSIVE SumFactors(_)
SumFactors(database_types) ==
    IF database_types = <<>> THEN 0
    ELSE db_factors(Lower(Head(database_types))) + SumFactors(Tail(database_types))

avg_db_factor(database_types) ==
    IF database_types # <<>>
    THEN SumFactors(database_types) \div Len(database_types)
    ELSE 8500

migration_factors(migration_type) ==
    CASE migration_type = "full_load"         -> 10000
      [] migration_type = "full_load_and_cdc" -> 8000
      [] migration_type = "cdc_only"          -> 6000
      [] OTHER                                -> 8000

size_factor(database_size_gb) == Min(10000, 5000 + database_size_gb)

dms_effective_throughput(a) ==
    Factor(Factor(Factor(Factor(Mbps(dms_performance(a.instance_type)),
                                avg_db_factor(a.database_types)),
                         migration_factors(a.migration_type)),
                  pattern_efficiency(a.network_pattern)),
           size_factor(a.database_size_gb))

(* the cap left out *)
final_throughput_Uncapped(effective_throughput, network_bw_mbps) ==
    effective_throughput

final_throughput(effective_throughput, network_bw_mbps) ==
    Min(effective_throughput, network_bw_mbps * 75)

(* database_size_gb * 8 * 1000 / (final_throughput * 3600), tenths of an hour *)
RawDuration(database_size_gb, final) == (database_size_gb * 20000) \div (final * 9)

DmsThroughput(a) ==
    LET final == final_throughput(dms_effective_throughput(a), a.network_bw_mbps)
    IN  [throughput_mbps        |-> final,
         efficiency             |-> (final * 100) \div a.network_bw_mbps,
         full_load_time_hours   |-> RawDuration(a.database_size_gb, final),
         cdc_lag_minutes        |-> IF a.migration_type = "full_load_and_cdc"
                                    THEN Max(1000, a.database_size_gb)
                                    ELSE 0,
         database_compatibility |-> avg_db_factor(a.database_types),
         network_efficiency     |-> pattern_efficiency(a.network_pattern)]

DmsInstanceTypes  == {"dms.t3.large", "dms.c5.large", "dms.r5.xlarge"}
DatabaseSizes     == {1, 500, 2000, 5000, 100000}
DatabaseTypeLists == {<<>>, <<"Oracle">>, <<"Cassandra", "Redis">>,
                      <<"SQL Server", "MySQL", "PostgreSQL", "MongoDB", "Elasticsearch">>}
MigrationTypes    == {"full_load", "full_load_and_cdc", "cdc_only"}

DmsArgs ==
    [instance_type    : DmsInstanceTypes,
     database_size_gb : DatabaseSizes,
     database_types   : DatabaseTypeLists,
     migration_type   : MigrationTypes,
     network_pattern  : NetworkPatterns,
     network_bw_mbps  : Bandwidths \cup {0}]

(* the divisors of lines 726-734: final_throughput * 3600, network_bw_mbps *)
DmsDividesByZero(a) ==
    \/ final_throughput(dms_effective_throughput(a), a.network_bw_mbps) * 3600 = 0
    \/ a.network_bw_mbps = 0

(* self.dms_performance[instance_type] *)
DmsKeyError(a) ==
    a.instance_type \notin
        {"dms.t3.micro", "dms.t3.small", "dms.t3.medium", "dms.t3.large",
         "dms.c5.large", "dms.c5.xlarge", "dms.c5.2xlarge", "dms.c5.4xlarge",
         "dms.r5.large", "dms.r5.xlarge", "dms.r5.2xlarge", "dms.r5.4xlarge"}

calculate_dms_throughput ==
    /\ est.op = "none"
    /\ \E a \in DmsArgs, unknown \in BOOLEAN :
         /\ unknown => (a.database_size_gb = 5000 /\ a.network_bw_mbps = min_dx_bandwidth_mbps)
         /\ LET b == IF unknown THEN [a EXCEPT !.instance_type = "dms.t2.nano"] ELSE a
            IN  est' = IF DmsKeyError(b)
                       THEN Raise("calculate_dms_throughput", b, "KeyError")
                       ELSE IF DmsDividesByZero(b)
                       THEN Raise("calculate_dms_throughput", b, "ZeroDivisionError")
                       ELSE [op |-> "dms", args |-> b, result |-> DmsThroughput(b)]
    /\ UNCHANGED <<now, nticks, catalog, mgr, thr, api, lastRes, batch>>

-----------------------------------------------------------------------------
(* calculate_snowball_timeline: physical shipping.  Capacities in          *)
(* thousandths of a TB and of a GB, days in thousandths, costs in dollars. *)

snowball_specs(device_type) ==
    CASE device_type = "snowcone" ->
           [capacity_tb |-> 8, transfer_rate_gbps |-> 25, shipping_days |-> 4]
      [] device_type = "snowball_edge_storage" ->
           [capacity_tb |-> 80000, transfer_rate_gbps |-> 1000, shipping_days |-> 6]
      [] device_type = "snowball_edge_compute" ->
           [capacity_tb |-> 42000, transfer_rate_gbps |-> 1000, shipping_days |-> 6]

device_capacity_gb(device_type) == snowball_specs(device_type).capacity_tb * 1024

CeilDiv(a, b) == (a + b - 1) \div b

(* rounding down where the code rounds up *)
devices_needed_Floor(data_size_gb, device_type, num_devices) ==
    Max(num_devices, (data_size_gb * 1000) \div device_capacity_gb(device_type))

devices_needed(data_size_gb, device_type, num_devices) ==
    Max(num_devices, CeilDiv(data_size_gb * 1000, device_capacity_gb(device_type)))

shipping_multipliers(shipping_location) ==
    CASE shipping_location = "domestic"      -> 1
      [] shipping_location = "international" -> 2
      [] shipping_location = "remote"        -> 3
      [] OTHER                               -> 1

get_snowball_pricing(device_type) ==
    CASE device_type = "snowcone"              -> [device_fee |-> 60,  days_included |-> 5]
      [] device_type = "snowball_edge_storage" -> [device_fee |-> 300, days_included |-> 10]
      [] device_type = "snowball_edge_compute" -> [device_fee |-> 400, days_included |-> 10]
      [] OTHER                                 -> [device_fee |-> 300, days_included |-> 10]

SnowballTimeline(a) ==
    LET device_specs  == snowball_specs(a.device_type)
        needed        == devices_needed(a.data_size_gb, a.device_type, a.num_devices)
        shipping_days == device_specs.shipping_days * shipping_multipliers(a.shipping_location)
        (* data * 8 / (rate_mbps * 3600) / 24 days *)
        loading_time_days   == (a.data_size_gb * 5) \div (device_specs.transfer_rate_gbps * 54)
        total_timeline_days == shipping_days * 2 * 1000 + loading_time_days + 2000
        price         == get_snowball_pricing(a.device_type)
        extra_days    == Max(0, total_timeline_days - price.days_included * 1000)
    IN  [devices_needed             |-> needed,
         loading_time_days          |-> loading_time_days,
         shipping_days              |-> shipping_days,
         total_timeline_days        |-> total_timeline_days,
         total_cost                 |-> price.device_fee * needed
                                          + ((extra_days * 15) \div 1000) * needed,
         throughput_equivalent_mbps |-> (a.data_size_gb * 5000) \div (total_timeline_days * 54),
         (* (data_size_gb / devices_needed) / device_capacity_gb, per cent *)
         device_utilization         |->
             LET share   == (a.data_size_gb * 1000) \div needed
                 quarter == device_capacity_gb(a.device_type) \div 4
             IN  (share \div quarter) * 25 + ((share % quarter) * 25) \div quarter]

DeviceTypes       == {"snowcone", "snowball_edge_storage", "snowball_edge_compute"}
DataSizes         == {1, 8, 9, 43008, 43009, 51200, 81920, 102400, 102401,
                      120000, 250000}
DeviceCounts      == {1, 3, 20}
ShippingLocations == {"domestic", "international", "remote"}

SnowballArgs ==
    [data_size_gb      : DataSizes \cup {0},
     device_type       : DeviceTypes,
     num_devices       : DeviceCounts \cup {0},
     shipping_location : ShippingLocations]

(* the divisor of line 776: devices_needed *)
SnowballDividesByZero(a) ==
    devices_needed(a.data_size_gb, a.device_type, a.num_devices) = 0

(* self.snowball_specs[device_type] *)
SnowballKeyError(a) ==
    a.device_type \notin {"snowcone", "snowball_edge_storage", "snowball_edge_compute"}

calculate_snowball_timeline ==
    /\ est.op = "none"
    /\ \E a \in SnowballArgs, unknown \in BOOLEAN :
         /\ unknown => a.device_type = "snowcone"
         /\ LET b == IF unknown THEN [a EXCEPT !.device_type = "snowmobile"] ELSE a
            IN  est' = IF SnowballKeyError(b)
                       THEN Raise("calculate_snowball_timeline", b, "KeyError")
                       ELSE IF SnowballDividesByZero(b)
                       THEN Raise("calculate_snowball_timeline", b, "ZeroDivisionError")
                       ELSE [op |-> "snowball", args |-> b, result |-> SnowballTimeline(b)]
    /\ UNCHANGED <<now, nticks, catalog, mgr, thr, api, lastRes, batch>>

-----------------------------------------------------------------------------
(* get_optimal_networking_architecture: the decision engine *)

geographic_latency ==
    "San Jose, CA"    :> ("us-west-1" :> 15  @@ "us-west-2" :> 25  @@ "us-east-1" :> 70  @@ "us-east-2" :> 65)  @@
    "San Antonio, TX" :> ("us-west-1" :> 45  @@ "us-west-2" :> 50  @@ "us-east-1" :> 35  @@ "us-east-2" :> 30)  @@
    "New York, NY"    :> ("us-west-1" :> 75  @@ "us-west-2" :> 80  @@ "us-east-1" :> 10  @@ "us-east-2" :> 15)  @@
    "Chicago, IL"     :> ("us-west-1" :> 60  @@ "us-west-2" :> 65  @@ "us-east-1" :> 25  @@ "us-east-2" :> 20)  @@
    "Dallas, TX"      :> ("us-west-1" :> 40  @@ "us-west-2" :> 45  @@ "us-east-1" :> 35  @@ "us-east-2" :> 30)  @@
    "Los Angeles, CA" :> ("us-west-1" :> 20  @@ "us-west-2" :> 15  @@ "us-east-1" :> 75  @@ "us-east-2" :> 70)  @@
    "Atlanta, GA"     :> ("us-west-1" :> 65  @@ "us-west-2" :> 70  @@ "us-east-1" :> 15  @@ "us-east-2" :> 20)  @@
    "London, UK"      :> ("us-west-1" :> 150 @@ "us-west-2" :> 155 @@ "us-east-1" :> 80  @@ "us-east-2" :> 85)  @@
    "Frankfurt, DE"   :> ("us-west-1" :> 160 @@ "us-west-2" :> 165 @@ "us-east-1" :> 90  @@ "us-east-2" :> 95)  @@
    "Tokyo, JP"       :> ("us-west-1" :> 120 @@ "us-west-2" :> 115 @@ "us-east-1" :> 180 @@ "us-east-2" :> 185) @@
    "Sydney, AU"      :> ("us-west-1" :> 170 @@ "us-west-2" :> 165 @@ "us-east-1" :> 220 @@ "us-east-2" :> 225)

(* a latency that depends on the clock and on the pricing cache *)
estimated_latency_Clock(source_location, target_region) ==
    IF now > 0 /\ DOMAIN cache # {} THEN 500 ELSE 50

estimated_latency(source_location, target_region) ==
    IF source_location \in DOMAIN geographic_latency
       /\ target_region \in DOMAIN geographic_latency[source_location]
    THEN geographic_latency[source_location][target_region]
    ELSE 50

networking_option(dx_bandwidth_mbps, latency) ==
    IF dx_bandwidth_mbps >= 1000 /\ latency < 50 THEN "Direct Connect (Primary)"
    ELSE IF dx_bandwidth_mbps >= 500 THEN "Direct Connect with Internet Backup"
    ELSE "Internet with VPN"

(* the physical-shipping branch never taken *)
primary_method_NoShipping(data_size_gb, dx_bandwidth_mbps, has_databases) ==
    IF has_databases /\ data_size_gb <= 50 * 1024 THEN "DMS" ELSE "DataSync"

(* the 50 TB limit on database replication left out *)
primary_method_DmsAnySize(data_size_gb, dx_bandwidth_mbps, has_databases) ==
    IF has_databases THEN "DMS"
    ELSE IF data_size_gb > 100 * 1024 /\ dx_bandwidth_mbps < 1000 THEN "Snowball Edge"
    ELSE "DataSync"

(* data_size_tb = data_size_gb / 1024 compared with 50 and 100 *)
primary_method(data_size_gb, dx_bandwidth_mbps, has_databases) ==
    IF has_databases /\ data_size_gb <= 50 * 1024 THEN "DMS"
    ELSE IF data_size_gb > 100 * 1024 /\ dx_bandwidth_mbps < 1000 THEN "Snowball Edge"
    ELSE "DataSync"

network_score(dx_bandwidth_mbps, latency) ==
    IF dx_bandwidth_mbps >= 1000 /\ latency < 50 THEN 9
    ELSE IF dx_bandwidth_mbps >= 500 THEN 7
    ELSE 5

(* any("Large" in dt or "Media" in dt ...) over the data types of the sidebar *)
has_large_files(data_types) ==
    \E i \in 1 .. Len(data_types) : data_types[i] = "Media Files"

(* service recommendations: throughputs in tenths of a Mbps, days in       *)
(* thousandths                                                             *)

(* the 1000 Mbps ceiling left out *)
dms_throughput_Uncapped(dx_bandwidth_mbps) == dx_bandwidth_mbps * 7

dms_throughput(dx_bandwidth_mbps) == Min(10000, dx_bandwidth_mbps * 7)

(* database size in tenths of a GB: the configured one, else 30 % of the data *)
db_size_gb(data_size_gb, database_size_gb) ==
    IF database_size_gb # 0 THEN database_size_gb * 10 ELSE data_size_gb * 3

(* max(0.25, (db_size_gb * 8 * 1000 / (dms_throughput * 3600)) / 24 * 2.0) *)
dms_days(data_size_gb, dx_bandwidth_mbps, database_size_gb) ==
    Max(250, (db_size_gb(data_size_gb, database_size_gb) * 5000)
                 \div (dms_throughput(dx_bandwidth_mbps) * 27))

dms_recommendation(data_size_gb, dx_bandwidth_mbps, database_size_gb) ==
    [suitability     |-> "High",
     throughput_mbps |-> dms_throughput(dx_bandwidth_mbps),
     estimated_days  |-> dms_days(data_size_gb, dx_bandwidth_mbps, database_size_gb)]

snowball_recommendation(data_size_gb) ==
    LET shipping_days       == 6000
        loading_time_days   == Max(1000, (data_size_gb * 1000) \div (8 * 1024))
        processing_days     == 2000
        total_snowball_days == shipping_days + loading_time_days + processing_days
        (* data_size_gb * 8 * 1000 / (total_snowball_days * 24 * 3600) *)
        megabits == data_size_gb * 2500
        divisor  == total_snowball_days * 27
    IN  [suitability     |-> IF data_size_gb > 100 * 1024 THEN "High" ELSE "Medium",
         throughput_mbps |-> (megabits \div divisor) * 10
                               + ((megabits % divisor) * 10) \div divisor,
         estimated_days  |-> total_snowball_days]

datasync_throughput(dx_bandwidth_mbps) == Min(dx_bandwidth_mbps * 8, 20000)

datasync_days(data_size_gb, dx_bandwidth_mbps) ==
    LET throughput == datasync_throughput(dx_bandwidth_mbps)
    IN  IF data_size_gb > 0 /\ throughput > 0
        THEN LET bits == data_size_gb * 8000
                 transfer_seconds == (bits \div throughput) * 10
                                       + ((bits % throughput) * 10) \div throughput
                 base_days == (transfer_seconds * 5) \div 432
                 (* total_overhead = 1 + 0.1 + 0.2 + 0.1 *)
                 days == (base_days * 14) \div 10
             IN  IF data_size_gb < 100 THEN Max(125, days)
                 ELSE IF data_size_gb < 1000 THEN Max(250, days)
                 ELSE Max(500, days)
        ELSE 1000

(* 'High' whatever the databases *)
datasync_suitability_AlwaysHigh(has_databases) == "High"

datasync_suitability(has_databases) == IF ~has_databases THEN "High" ELSE "Medium"

datasync_recommendation(data_size_gb, dx_bandwidth_mbps, has_databases) ==
    [suitability     |-> datasync_suitability(has_databases),
     throughput_mbps |-> datasync_throughput(dx_bandwidth_mbps),
     estimated_days  |-> datasync_days(data_size_gb, dx_bandwidth_mbps)]

service_recommendations(data_size_gb, dx_bandwidth_mbps, has_databases, database_size_gb) ==
    LET keys == {"datasync"}
                  \cup (IF has_databases /\ data_size_gb <= 50 * 1024 THEN {"dms"} ELSE {})
                  \cup (IF data_size_gb > 50 * 1024 THEN {"snowball"} ELSE {})
    IN  [k \in keys |->
           CASE k = "dms"      -> dms_recommendation(data_size_gb, dx_bandwidth_mbps,
                                                      database_size_gb)
             [] k = "snowball" -> snowball_recommendation(data_size_gb)
             [] k = "datasync" -> datasync_recommendation(data_size_gb, dx_bandwidth_mbps,
                                                          has_databases)]

(* primary_method.lower().replace(" ", "_").replace("edge", "") *)
service_key(method) ==
    CASE method = "DMS"           -> "dms"
      [] method = "Snowball Edge" -> "snowball_"
      [] method = "DataSync"      -> "datasync"

(* _generate_ai_rationale: the sentences chosen, in order *)
rationale(data_size_gb, bandwidth, has_db, large_files, latency, score) ==
    <<IF latency < 30 THEN "Excellent geographic proximity"
      ELSE IF latency < 80 THEN "Good connectivity"
      ELSE "Significant distance">>
    \o <<IF bandwidth >= 10000 THEN "High-bandwidth Direct Connect"
         ELSE IF bandwidth >= 1000 THEN "Adequate Direct Connect bandwidth"
         ELSE "Limited bandwidth">>
    \o (IF data_size_gb > 100 * 1024 THEN <<"Large dataset">> ELSE <<>>)
    \o (IF has_db THEN <<"Database workloads">> ELSE <<>>)
    \o (IF large_files THEN <<"Large file presence">> ELSE <<>>)
    \o <<IF score >= 8 THEN "Network conditions are optimal"
         ELSE IF score >= 6 THEN "Network conditions support cloud migration"
         ELSE "Network limitations">>

NetworkingArchitecture(a) ==
    LET data_size_gb      == IF a.data_size_gb # 0 THEN a.data_size_gb ELSE 1000
        dx_bandwidth_mbps == IF a.dx_bandwidth_mbps # 0 THEN a.dx_bandwidth_mbps ELSE 1000
        latency           == estimated_latency(a.source_location, a.target_region)
        has_databases     == Len(a.database_types) > 0
        score             == network_score(dx_bandwidth_mbps, latency)
        recs              == service_recommendations(data_size_gb, dx_bandwidth_mbps,
                                                     has_databases, a.database_size_gb)
        primary           == primary_method(data_size_gb, dx_bandwidth_mbps, has_databases)
        primary_service   == IF service_key(primary) \in DOMAIN recs
                             THEN recs[service_key(primary)]
                             ELSE recs["datasync"]
    IN  [networking_option |-> networking_option(dx_bandwidth_mbps, latency),
         primary_method    |-> primary,
         secondary_method  |-> "S3 Transfer Acceleration",
         service_recommendations |-> recs,
         estimated_performance   |->
             [throughput_mbps    |-> primary_service.throughput_mbps,
              estimated_days     |-> primary_service.estimated_days,
              network_efficiency |-> score],
         rationale         |-> rationale(data_size_gb, dx_bandwidth_mbps, has_databases,
                                         has_large_files(a.data_types), latency, score),
         cost_efficiency   |->
             IF data_size_gb > 100 * 1024 /\ dx_bandwidth_mbps < 1000
             THEN "High (Physical transfer)"
             ELSE IF dx_bandwidth_mbps >= 1000 THEN "Medium (Network transfer)"
             ELSE "Medium",
         risk_level        |->
             IF data_size_gb > 100 * 1024 /\ dx_bandwidth_mbps < 1000 THEN "Medium"
             ELSE IF dx_bandwidth_mbps >= 1000 THEN "Low"
             ELSE "Medium"]

SourceLocations  == {"San Jose, CA", "Sydney, AU", "Other"}
TargetRegions    == {"us-west-1", "us-east-1", "eu-west-1"}
LineBandwidths   == {min_dx_bandwidth_mbps, 500, 1000}
DatabaseChoices  == {<<>>, <<"PostgreSQL">>}
DataTypeChoices  == {<<>>, <<"Media Files">>}

ArchitectureArgs ==
    [source_location   : SourceLocations,
     target_region     : TargetRegions,
     data_size_gb      : DataSizes \cup {0, 5000},
     dx_bandwidth_mbps : LineBandwidths \cup {0, 10000},
     database_types    : DatabaseChoices,
     data_types        : DataTypeChoices,
     database_size_gb  : {0, 5000}]

get_optimal_networking_architecture ==
    /\ est.op = "none"
    /\ \E a \in ArchitectureArgs :
         est' = [op |-> "architecture", args |-> a, result |-> NetworkingArchitecture(a)]
    /\ UNCHANGED <<now, nticks, catalog, mgr, thr, api, lastRes, batch>>

(* The decision engine called again and again beside the pricing resolvers, *)
(* while time passes and the cache fills and expires                        *)
RecommendArgs ==
    {a \in ArchitectureArgs :
        /\ a.source_location = "San Jose, CA"
        /\ a.target_region = "us-west-1"
        /\ a.data_size_gb = 120000
        /\ a.dx_bandwidth_mbps \in {500, 1000}
        /\ a.database_types = <<>>
        /\ a.data_types = <<>>
        /\ a.database_size_gb = 0}

recommend ==
    /\ \E a \in RecommendArgs :
         est' = [op |-> "architecture", args |-> a, result |-> NetworkingArchitecture(a)]
    /\ UNCHANGED <<now, nticks, catalog, mgr, thr, api, lastRes, batch>>

(* The recommendation next to the pricing manager of line 620: one client   *)
(* asks for the line and transfer prices, the provider reprices, the clock  *)
(* advances, and the recommendation is asked for again at any moment.       *)
NextRecommend ==
    \/ get_direct_connect_pricing("c1")
    \/ get_data_transfer_pricing("c1")
    \/ ResolverStep
    \/ ProviderReprices
    \/ ApiTick
    \/ recommend

SpecRecommend == InitApi /\ [][NextRecommend]_vars

(* calculate_migration_metrics with 'snowball' among the selected services: *)
(* the shipping timeline and the recommendation for one configuration       *)
SnowballConfigs ==
    [data_size_gb         : DataSizes,
     snowball_device_type : DeviceTypes,
     num_snowball_devices : DeviceCounts,
     shipping_location    : {"domestic", "remote"},
     source_location      : {"San Jose, CA"},
     target_region        : {"us-west-1", "us-east-1"},
     dx_bandwidth_mbps    : LineBandwidths,
     database_types       : DatabaseChoices]

metrics_snowball ==
    /\ est.op = "none"
    /\ \E c \in SnowballConfigs :
         est' = [op     |-> "metrics",
                 args   |-> c,
                 result |->
                   [snowball |-> SnowballTimeline(
                        [data_size_gb      |-> c.data_size_gb,
                         device_type       |-> c.snowball_device_type,
                         num_devices       |-> c.num_snowball_devices,
                         shipping_location |-> c.shipping_location]),
                    networking_recommendations |-> NetworkingArchitecture(
                        [source_location   |-> c.source_location,
                         target_region     |-> c.target_region,
                         data_size_gb      |-> c.data_size_gb,
                         dx_bandwidth_mbps |-> c.dx_bandwidth_mbps,
                         database_types    |-> c.database_types,
                         data_types        |-> <<>>,
                         database_size_gb  |-> 1000])]]
    /\ UNCHANGED <<now, nticks, catalog, mgr, thr, api, lastRes, batch>>

(* calculate_migration_metrics, one pass: the metrics of the selected       *)
(* services, the primary service and its transfer_days (tenths of a day),   *)
(* the recommendation; the except branch with its stock answer.  The fields *)
(* of the configuration not listed take the defaults of the sidebar; the    *)
(* cost breakdown of a pass is the subject of the pricing batch.            *)
MetricsConfigs ==
    [selected_services          : {{"datasync"}, {"dms"}, {"snowball"},
                                   {"datasync", "dms", "snowball"}},
     datasync_instance_type     : {"m5.large", "t2.nano"},
     data_size_gb               : {5000, 120000},
     dx_bandwidth_mbps          : {500, 1000},
     database_types             : DatabaseChoices,
     business_hours_restriction : BOOLEAN]

MigrationMetrics(c) ==
    LET datasync_cfg ==
            [instance_type |-> c.datasync_instance_type, num_agents |-> 5,
             file_size_category |-> "< 1MB (Many small files)",
             network_bw_mbps |-> c.dx_bandwidth_mbps, latency |-> 25, jitter |-> 5,
             packet_loss |-> 1, qos_enabled |-> TRUE, dedicated_bandwidth |-> 60,
             real_world_mode |-> TRUE, network_pattern |-> "direct_connect_dedicated",
             tcp_window_size |-> "Default", mtu_size |-> "1500 (Standard)",
             network_congestion_control |-> "Cubic (Default)", wan_optimization |-> FALSE]
        database_size_gb == IF "dms" \in c.selected_services THEN 5000 ELSE 1000
        dms_args ==
            [instance_type |-> "dms.c5.large", database_size_gb |-> database_size_gb,
             database_types |-> c.database_types, migration_type |-> "full_load_and_cdc",
             network_pattern |-> "direct_connect_dedicated",
             network_bw_mbps |-> c.dx_bandwidth_mbps]
        snowball_args ==
            [data_size_gb |-> c.data_size_gb, device_type |-> "snowball_edge_storage",
             num_devices |-> 1, shipping_location |-> "domestic"]
        in_metrics ==
            (IF "datasync" \in c.selected_services THEN {"datasync"} ELSE {})
              \cup (IF "dms" \in c.selected_services /\ c.database_types # <<>>
                    THEN {"dms"} ELSE {})
              \cup (IF "snowball" \in c.selected_services THEN {"snowball"} ELSE {})
        primary_service ==
            IF "datasync" \in in_metrics THEN "datasync"
            ELSE IF "dms" \in in_metrics THEN "dms"
            ELSE IF "snowball" \in in_metrics THEN "snowball"
            ELSE "datasync"
        primary_throughput ==
            IF "datasync" \in in_metrics THEN DatasyncMetrics(datasync_cfg).throughput_mbps
            ELSE IF "dms" \in in_metrics THEN DmsThroughput(dms_args).throughput_mbps
            ELSE IF "snowball" \in in_metrics
                 THEN Mbps(SnowballTimeline(snowball_args).throughput_equivalent_mbps)
            ELSE Mbps(100)
        available_hours_per_day == IF c.business_hours_restriction THEN 16 ELSE 24
        effective_data_gb == (c.data_size_gb * 85) \div 100
        bits    == effective_data_gb * 8000
        divisor == primary_throughput * available_hours_per_day * 36
        transfer_days == Max(1, (bits \div divisor) * 10 + ((bits % divisor) * 10) \div divisor)
    IN  IF "datasync" \in c.selected_services /\ ThroughputKeyError(datasync_cfg)
        THEN (* except Exception: st.error(...) and the stock answer *)
             [primary_service |-> "datasync", optimized_throughput |-> Mbps(100),
              transfer_days |-> 100, cost_breakdown |-> [total |-> 1850],
              networking_recommendations |-> <<>>, service_metrics |-> {},
              error_shown |-> TRUE]
        ELSE [primary_service |-> primary_service,
              optimized_throughput |-> primary_throughput,
              transfer_days |-> transfer_days,
              networking_recommendations |->
                  NetworkingArchitecture(
                      [source_location |-> "San Jose, CA", target_region |-> "us-east-1",
                       data_size_gb |-> c.data_size_gb,
                       dx_bandwidth_mbps |-> c.dx_bandwidth_mbps,
                       database_types |-> c.database_types, data_types |-> <<>>,
                       database_size_gb |-> database_size_gb]),
              service_metrics |-> in_metrics,
              error_shown |-> FALSE]

calculate_migration_metrics ==
    /\ est.op = "none"
    /\ \E c \in MetricsConfigs :
         est' = [op |-> "migration_metrics", args |-> c, result |-> MigrationMetrics(c)]
    /\ UNCHANGED <<now, nticks, catalog, mgr, thr, api, lastRes, batch>>

NextCalc ==
    \/ calculate_migration_metrics
    \/ calculate_enterprise_throughput
    \/ metrics_datasync
    \/ calculate_dms_throughput
    \/ calculate_snowball_timeline
    \/ get_optimal_networking_architecture
    \/ metrics_snowball

SpecCalc == Init /\ [][NextCalc]_vars

-----------------------------------------------------------------------------
(* Properties of the file-sync throughput model *)

(* C13: for every configuration of the sidebar the published file-sync      *)
(* estimate has effective throughput at most the theoretical throughput,    *)
(* both non-negative: for the pair calculate_enterprise_throughput returns  *)
(* and for metrics['datasync'].                                             *)
C13_EffectiveAtMostTheoretical ==
    /\ (est.op = "throughput" /\ est.args.network_bw_mbps >= min_dx_bandwidth_mbps) =>
          /\ 0 <= est.result.effective_throughput
          /\ est.result.effective_throughput <= est.result.theoretical_throughput
    /\ (est.op = "datasync" /\ est.args.network_bw_mbps >= min_dx_bandwidth_mbps) =>
          /\ 0 <= est.result.throughput_mbps
          /\ est.result.throughput_mbps <= est.result.theoretical_throughput

(* C14: the final file-sync throughput never exceeds                        *)
(* network_bw_mbps * dedicated_bandwidth / 100, as returned by              *)
(* calculate_enterprise_throughput and as stored in metrics['datasync'].    *)
C14_ThroughputCapped ==
    /\ est.op = "throughput" =>
          est.result.effective_throughput <= max_available_bandwidth(est.args)
    /\ est.op = "datasync" =>
          est.result.throughput_mbps <= max_available_bandwidth(est.args)

(* C15: agent_efficiency is non-increasing in the agent index and never     *)
(* below 0.4; the uncapped total is non-decreasing in num_agents and the    *)
(* gain of each further agent is at most the gain of the one before it.     *)
C15_DiminishingAgents ==
    est.op = "throughput" =>
        LET total == [n \in 0 .. est.args.num_agents + 2 |->
                         total_throughput(est.args, n)]
        IN  \A i \in 0 .. est.args.num_agents :
                /\ agent_efficiency(i) >= 4000
                /\ agent_efficiency(i + 1) <= agent_efficiency(i)
                /\ total[i + 1] >= total[i]
                /\ total[i + 2] - total[i + 1] <= total[i + 1] - total[i]

(* calculate_enterprise_throughput was applied to enough agents for the     *)
(* efficiency of the last to sit at its floor, with a positive gain         *)
C15_Witness ==
    /\ est.op = "throughput"
    /\ est.args.num_agents > 13
    /\ agent_efficiency(est.args.num_agents - 1) = 4000
    /\ agent_efficiency(11) > 4000
    /\ agent_throughput(est.args, est.args.num_agents - 1) > 0

(* C16: the theoretical throughput is the computation without the bandwidth *)
(* cap: base rate * file efficiency * network efficiency * num_agents, even *)
(* when that exceeds the available bandwidth (configurations of the         *)
(* sidebar).                                                                *)
C16_TheoreticalUncapped ==
    (est.op = "throughput" /\ est.args.network_bw_mbps >= min_dx_bandwidth_mbps) =>
        est.result.theoretical_throughput = BaseRate(est.args) * est.args.num_agents

-----------------------------------------------------------------------------
(* Properties of the database-replication model *)

(* C17: for every configuration the throughput_mbps that                    *)
(* calculate_dms_throughput reports is at most 0.75 * network_bw_mbps.      *)
C17_DmsThroughputCapped ==
    est.op = "dms" =>
        est.result.throughput_mbps * 100 <= 75 * Mbps(est.args.network_bw_mbps)

(* calculate_dms_throughput met a link slower than the instance: the        *)
(* effective throughput is above three quarters of the bandwidth and the    *)
(* reported one sits on that cap                                            *)
C17_Witness ==
    /\ est.op = "dms"
    /\ est.args.network_bw_mbps >= min_dx_bandwidth_mbps
    /\ dms_effective_throughput(est.args) * 100 > 75 * Mbps(est.args.network_bw_mbps)
    /\ est.result.throughput_mbps * 100 = 75 * Mbps(est.args.network_bw_mbps)

(* C18: in the modes with change capture (full_load_and_cdc, cdc_only) the  *)
(* reported duration is the raw duration times an overhead factor (so at    *)
(* least the raw duration) and the lag is max(1, database_size_gb / 1000)   *)
(* minutes; for full_load the duration is the raw duration and the lag 0    *)
(* (configurations of the sidebar with a database system selected).         *)
C18_ChangeCaptureReporting ==
    (/\ est.op = "dms"
     /\ est.args.network_bw_mbps >= min_dx_bandwidth_mbps
     /\ est.args.database_types # <<>>) =>
        LET raw == RawDuration(est.args.database_size_gb, est.result.throughput_mbps)
        IN  /\ est.args.migration_type \in {"full_load_and_cdc", "cdc_only"} =>
                 /\ est.result.full_load_time_hours >= raw
                 /\ est.result.cdc_lag_minutes = Max(1000, est.args.database_size_gb)
            /\ est.args.migration_type = "full_load" =>
                 /\ est.result.full_load_time_hours = raw
                 /\ est.result.cdc_lag_minutes = 0

-----------------------------------------------------------------------------
(* Properties of the physical-shipping model and of the decision engine *)

(* C19: for every positive data size, device type and requested device      *)
(* count, devices_needed is max(requested, ceil(data_gb / capacity_gb))     *)
(* with capacity_gb = capacity_tb * 1024: the requested count when that     *)
(* many devices hold the data, otherwise the least count that holds it.     *)
C19_DevicesNeeded ==
    est.op = "snowball" =>
        LET data      == est.args.data_size_gb * 1000
            capacity  == snowball_specs(est.args.device_type).capacity_tb * 1024
            requested == est.args.num_devices
            n         == est.result.devices_needed
        IN  IF requested * capacity >= data
            THEN n = requested
            ELSE /\ n * capacity >= data
                 /\ (n - 1) * capacity < data

(* calculate_snowball_timeline was given more data than the requested       *)
(* devices hold, not a whole number of devices' worth                       *)
C19_Witness ==
    /\ est.op = "snowball"
    /\ est.result.devices_needed > est.args.num_devices
    /\ est.args.num_devices > 1
    /\ (est.args.data_size_gb * 1000) % device_capacity_gb(est.args.device_type) # 0

(* C20, as stated: for 120,000 GB over 500 Mbps with no databases the       *)
(* primary method is 'Snowball Edge' and, for every device type, the device *)
(* count is at least ceil(120 * 1024 / device_capacity_gb).                 *)
C20_ScenarioC_Stated ==
    (/\ est.op = "metrics"
     /\ est.args.data_size_gb = 120000
     /\ est.args.dx_bandwidth_mbps = 500
     /\ est.args.database_types = <<>>) =>
        /\ est.result.networking_recommendations.primary_method = "Snowball Edge"
        /\ est.result.snowball.devices_needed >=
               CeilDiv(120 * 1024 * 1000, device_capacity_gb(est.args.snowball_device_type))

(* C20, amended: for 120,000 GB over 500 Mbps with no databases the primary *)
(* method is 'Snowball Edge' and, for every device type, the device count   *)
(* is at least ceil(120000 / device_capacity_gb).                           *)
C20_ScenarioC ==
    (/\ est.op = "metrics"
     /\ est.args.data_size_gb = 120000
     /\ est.args.dx_bandwidth_mbps = 500
     /\ est.args.database_types = <<>>) =>
        /\ est.result.networking_recommendations.primary_method = "Snowball Edge"
        /\ est.result.snowball.devices_needed >=
               CeilDiv(120000 * 1000,
                       device_capacity_gb(est.args.snowball_device_type))

(* Scenario C was estimated for the smallest device: shipping is chosen and *)
(* the count comes from the data size, above the requested count            *)
C20_Witness ==
    /\ est.op = "metrics"
    /\ est.args.data_size_gb = 120000
    /\ est.args.dx_bandwidth_mbps = 500
    /\ est.args.database_types = <<>>
    /\ est.args.snowball_device_type = "snowcone"
    /\ est.result.networking_recommendations.primary_method = "Snowball Edge"
    /\ est.result.snowball.devices_needed > est.args.num_snowball_devices

-----------------------------------------------------------------------------
(* Properties of the models at the edge of their inputs *)

(* C21: none of the three throughput models divides by zero: with a zero    *)
(* throughput or device count (bandwidth 0 in calculate_dms_throughput,     *)
(* data size 0 with 0 requested devices in calculate_snowball_timeline) the *)
(* model returns an estimate instead of raising.                            *)
C21_NoDivisionByZero ==
    ~(est.op = "raise" /\ est.exception = "ZeroDivisionError")

-----------------------------------------------------------------------------
(* Properties of the recommendation *)

(* C22, as stated: for every input the primary method is 'DMS' if there are *)
(* databases and the data is at most 50 TB, otherwise 'Snowball Edge' if    *)
(* the data is above 100 TB and the bandwidth below 1000 Mbps, otherwise    *)
(* 'DataSync'; the secondary method is 'S3 Transfer Acceleration'; 5,000 GB *)
(* with ['PostgreSQL'] gives 'DMS' with suitability 'High'.                 *)
C22_PrimaryMethod_Stated ==
    est.op = "architecture" =>
        LET has_db == est.args.database_types # <<>>
            r      == est.result
        IN  /\ r.primary_method =
                 (IF has_db /\ est.args.data_size_gb <= 50 * 1024 THEN "DMS"
                  ELSE IF est.args.data_size_gb > 100 * 1024
                          /\ est.args.dx_bandwidth_mbps < 1000 THEN "Snowball Edge"
                  ELSE "DataSync")
            /\ r.secondary_method = "S3 Transfer Acceleration"
            /\ (est.args.data_size_gb = 5000 /\ est.args.database_types = <<"PostgreSQL">>) =>
                  /\ r.primary_method = "DMS"
                  /\ r.service_recommendations["dms"].suitability = "High"

(* C22, amended: the same rule, with a bandwidth of 0 read as 1000 Mbps.    *)
C22_PrimaryMethod ==
    est.op = "architecture" =>
        LET has_db == est.args.database_types # <<>>
            bw     == IF est.args.dx_bandwidth_mbps = 0 THEN 1000
                      ELSE est.args.dx_bandwidth_mbps
            r      == est.result
        IN  /\ r.primary_method =
                 (IF has_db /\ est.args.data_size_gb <= 50 * 1024 THEN "DMS"
                  ELSE IF est.args.data_size_gb > 100 * 1024 /\ bw < 1000 THEN "Snowball Edge"
                  ELSE "DataSync")
            /\ r.secondary_method = "S3 Transfer Acceleration"
            /\ (est.args.data_size_gb = 5000 /\ est.args.database_types = <<"PostgreSQL">>) =>
                  /\ r.primary_method = "DMS"
                  /\ r.service_recommendations["dms"].suitability = "High"

(* Scenario B was asked for: 5,000 GB of data with a PostgreSQL database    *)
C22_Witness ==
    /\ est.op = "architecture"
    /\ est.args.data_size_gb = 5000
    /\ est.args.database_types = <<"PostgreSQL">>
    /\ est.result.primary_method = "DMS"
    /\ "dms" \in DOMAIN est.result.service_recommendations

-----------------------------------------------------------------------------
(* Properties of one estimation pass *)

(* C24: a configuration with an instance type, device type or file-size    *)
(* category that the tables do not know is rejected with an                 *)
(* InvalidConfiguration signal: the models raise nothing else for it, and   *)
(* calculate_migration_metrics returns no estimate for it.                  *)
C24_InvalidConfigurationRejected ==
    /\ est.op = "raise" => est.exception # "KeyError"
    /\ (/\ est.op = "migration_metrics"
        /\ "datasync" \in est.args.selected_services
        /\ est.args.datasync_instance_type = "t2.nano") =>
           /\ "transfer_days" \notin DOMAIN est.result
           /\ "cost_breakdown" \notin DOMAIN est.result

(* C25: in one pass the primary service, whose throughput gives the         *)
(* transfer_days of the cost breakdown, is the mechanism that the           *)
(* recommendation names as primary method.                                  *)
C25_CostFollowsPrimaryMethod ==
    (est.op = "migration_metrics" /\ ~est.result.error_shown) =>
        LET method == est.result.networking_recommendations.primary_method
        IN  est.result.primary_service =
               (CASE method = "DMS"           -> "dms"
                  [] method = "Snowball Edge" -> "snowball"
                  [] method = "DataSync"      -> "datasync")

-----------------------------------------------------------------------------
(* Properties of the service recommendations *)

C27_SnowballRecommendationIsTimeline ==
    (/\ est.op = "architecture"
     /\ est.args.dx_bandwidth_mbps >= min_dx_bandwidth_mbps
     /\ est.args.data_size_gb > 50 * 1024) =>
        LET recs == est.result.service_recommendations
        IN  /\ "snowball" \in DOMAIN recs
            /\ recs["snowball"].suitability =
                 (IF est.args.data_size_gb > 100 * 1024 THEN "High" ELSE "Medium")
            /\ \E d \in DeviceTypes, l \in ShippingLocations :
                 LET t == SnowballTimeline([data_size_gb |-> est.args.data_size_gb,
                                            device_type |-> d, num_devices |-> 1,
                                            shipping_location |-> l])
                 IN  /\ recs["snowball"].estimated_days = t.total_timeline_days
                     /\ recs["snowball"].throughput_mbps \div 10 = t.throughput_equivalent_mbps

(* C28: every recommendation has a 'datasync' service recommendation, of    *)
(* suitability 'High' exactly when there are no databases and 'Medium'      *)
(* otherwise, with estimated_days > 0 for every data size and bandwidth,    *)
(* zero included.                                                           *)
C28_DatasyncAlwaysRecommended ==
    est.op = "architecture" =>
        LET recs == est.result.service_recommendations
        IN  /\ "datasync" \in DOMAIN recs
            /\ recs["datasync"].suitability = "High" <=> est.args.database_types = <<>>
            /\ recs["datasync"].suitability \in {"High", "Medium"}
            /\ recs["datasync"].estimated_days > 0

(* a recommendation was asked for no data over no bandwidth, with databases *)
C28_Witness ==
    /\ est.op = "architecture"
    /\ est.args.data_size_gb = 0
    /\ est.args.dx_bandwidth_mbps = 0
    /\ est.args.database_types # <<>>
    /\ est.result.service_recommendations["datasync"].suitability = "Medium"
    /\ est.result.service_recommendations["datasync"].estimated_days > 0

(* C29: the estimated_performance of a recommendation is taken from the     *)
(* service recommendation of its primary method ('dms' for 'DMS',           *)
(* 'snowball' for 'Snowball Edge', 'datasync' for 'DataSync'), which is     *)
(* always present.                                                          *)
C29_PerformanceOfPrimary ==
    est.op = "architecture" =>
        LET recs == est.result.service_recommendations
            key  == CASE est.result.primary_method = "DMS"           -> "dms"
                      [] est.result.primary_method = "Snowball Edge" -> "snowball"
                      [] est.result.primary_method = "DataSync"      -> "datasync"
        IN  /\ key \in DOMAIN recs
            /\ est.result.estimated_performance.throughput_mbps = recs[key].throughput_mbps
            /\ est.result.estimated_performance.estimated_days = recs[key].estimated_days

-----------------------------------------------------------------------------
(* Properties of the prices behind a cost breakdown *)

(* C30: the dedicated-line price of a cost breakdown is resolved for the    *)
(* configured dx_bandwidth_mbps: the lookup that the batch submits for it   *)
(* carries the configuration's bandwidth, in its argument and in its cache  *)
(* key.                                                                     *)
C30_PricesKeyedByConfiguration ==
    (bpc \notin {"idle", "submit"} /\ thr["dx"].pc # "idle") =>
        /\ thr["dx"].param = config.dx_bandwidth_mbps
        /\ thr["dx"].key = CacheKey("dx", config.dx_bandwidth_mbps, NoRegion)

====
